---------------------------- MODULE Spec2Model ----------------------------
(***************************************************************************)
(* A model of gpii-json-schema's validator component                       *)
(* (src/src/js/common/validate.js) and of its client-side error binder     *)
(* (src/src/js/client/errorBinder.js).                                     *)
(*                                                                         *)
(* Strings the code takes apart (the `path` of a raw Z-Schema error, the   *)
(* names in its `params`) are sequences of one-character strings, so that  *)
(* `split("/")` is computed and not assumed.  Strings the code only copies *)
(* (messages, error codes, schema keys) are TLA+ strings.                  *)
(*                                                                         *)
(* A JavaScript object used as a dictionary is a finite map of its own     *)
(* properties; the schema keys and field names drawn here are none of the  *)
(* names an object inherits (constructor, toString, ...), for which a      *)
(* lookup such as `that.schemaContents[key]` finds the inherited member.   *)
(* The error tree, whose nodes the code reaches by reference  *)
(* and mutates in place, is a heap indexed by the path of each node:       *)
(* fieldErrors[<<>>] is the `fieldErrors` object itself and                *)
(* fieldErrors[<<"d", "r">>] is the value of fieldErrors.d.r.  A node is   *)
(* an object ("obj") or an array ("arr", with the strings pushed to it);   *)
(* an array can carry named properties too, as in JavaScript.              *)
(***************************************************************************)
EXTENDS Integers, Sequences, FiniteSets, TLC

VARIABLES
    schemaContents,  \* that.schemaContents: schema key -> schema
    zSchemaOptions,  \* that.options.zSchemaOptions
    lastCall,        \* the arguments of the latest validate call
    outcome,         \* how the latest validate call ended, and its value
    validatorCalls,  \* what the latest validate call asked of Z-Schema
    seenKinds,       \* the ways in which validate calls have ended so far
    errors,          \* sanitizeValidationErrors: its argument
    processed,       \* ... the number of loop iterations started
    errorMap,        \* ... its local `sanitizedErrors`
    thrown,          \* ... whether an iteration threw a TypeError
    pointer,         \* extractPathSegments: the `path` of its argument
    segments,        \* ... its return value
    extracted,       \* ... whether it has returned
    errorBindings,   \* errorBinder: that.options.errorBindings, in key order
    located,         \* ... the elements each named selector locates
    modelFieldErrors, \* ... that.model.fieldErrors
    inlineErrors,    \* ... the elements of class validationError on screen
    domEvents,       \* ... what the latest displayErrors call did, in order
    templatesLoaded  \* ... whether onTemplatesLoaded has fired

vars == <<schemaContents, zSchemaOptions, lastCall, outcome, validatorCalls,
          seenKinds, errors, processed, errorMap, thrown, pointer, segments,
          extracted, errorBindings, located, modelFieldErrors, inlineErrors,
          domEvents, templatesLoaded>>

componentVars == <<schemaContents, zSchemaOptions, lastCall, outcome,
                   validatorCalls, seenKinds>>
sanitizeVars == <<errors, processed, errorMap, thrown>>
pointerVars == <<pointer, segments, extracted>>
binderVars == <<errorBindings, located, modelFieldErrors, inlineErrors,
                domEvents, templatesLoaded>>

----------------------------------------------------------------------------
(* Bounds. *)

MaxPointerLen == 4   \* characters in a pointer drawn by InitPointer
MaxErrors == 3       \* raw errors in a list drawn by InitSanitize
MaxViolations == 2   \* constraints one validated document breaks
MaxPathLen == 3      \* segments in a path handed to resolveOrCreateTargetFromPath
MaxElements == 2     \* elements of the page one selector locates
MaxFieldErrors == 2  \* errors in that.model.fieldErrors

----------------------------------------------------------------------------
(* Sequence helpers. *)

Last(s) == s[Len(s)]

SeqsUpTo(S, n) == UNION {[1..k -> S] : k \in 0..n}

----------------------------------------------------------------------------
(* Path segments: validate.js, lines 115-144. *)

\* String.prototype.split("/"): the pieces between the slashes, empty ones
\* included; a string without a slash (the empty one too) is one piece.
Split(s) ==
    LET pieces[i \in 0..Len(s)] ==
            IF i = 0 THEN << <<>> >>
            ELSE IF s[i] = "/" THEN Append(pieces[i - 1], <<>>)
            ELSE [pieces[i - 1] EXCEPT ![Len(pieces[i - 1])] = Append(@, s[i])]
    IN  pieces[Len(s)]

\* gpii.schema.validator.removeEmptySegments.  Every piece of a split is a
\* string, so `el !== undefined && el !== null` holds of each.
removeEmptySegments(el) == Len(el) > 0

\* Array.prototype.slice(1).
Slice1(s) == IF Len(s) = 0 THEN <<>> ELSE Tail(s)

\* A plausible slip: the slice taken before the filter.
ExtractSliceBeforeFilter(error) ==
    LET segs == SelectSeq(Slice1(Split(error.path)), removeEmptySegments)
    IN  IF error.code = "OBJECT_MISSING_REQUIRED_PROPERTY" /\ error.hasParams
        THEN segs \o error.params
        ELSE segs

\* A plausible slip: the parameters of a required-property failure left out.
ExtractWithoutParams(error) ==
    Slice1(SelectSeq(Split(error.path), removeEmptySegments))

\* gpii.schema.validator.extractPathSegments.
extractPathSegments(error) ==
    LET segs == Slice1(SelectSeq(Split(error.path), removeEmptySegments))
    IN  IF error.code = "OBJECT_MISSING_REQUIRED_PROPERTY" /\ error.hasParams
        THEN segs \o error.params
        ELSE segs

----------------------------------------------------------------------------
(* The error tree: validate.js, lines 98-113 and 146-201. *)

ObjNode == [kind |-> "obj", items |-> <<>>]
ArrNode == [kind |-> "arr", items |-> <<>>]

\* `{ documentErrors: [], fieldErrors: {}}`
EmptyErrorMap == [documentErrors |-> <<>>, fieldErrors |-> (<<>> :> ObjNode)]

\* A plausible slip: an object created for the last segment too.
ResolveCreatingObjects(tree, path) ==
    LET walk[a \in 0..Len(path)] ==
            IF a = 0 THEN [tree |-> tree, at |-> <<>>]
            ELSE LET prev == walk[a - 1]
                     child == Append(prev.at, path[a])
                 IN  IF child \notin DOMAIN prev.tree
                     THEN [tree |-> prev.tree @@ (child :> ObjNode), at |-> child]
                     ELSE [tree |-> prev.tree, at |-> child]
    IN  walk[Len(path)]

\* gpii.schema.validator.resolveOrCreateTargetFromPath, on the heap `tree`
\* whose root is the `target` argument: the heap after the walk, and the
\* place of the node returned.  `!resolvedTarget[segment]` holds exactly of a
\* missing property: every node is an object or an array, which are truthy.
resolveOrCreateTargetFromPath(tree, path) ==
    LET walk[a \in 0..Len(path)] ==
            IF a = 0 THEN [tree |-> tree, at |-> <<>>]
            ELSE LET prev == walk[a - 1]
                     child == Append(prev.at, path[a])
                 IN  IF child \notin DOMAIN prev.tree
                     THEN [tree |-> prev.tree @@
                                    (child :> IF a = Len(path) THEN ArrNode
                                                               ELSE ObjNode),
                           at |-> child]
                     ELSE [tree |-> prev.tree, at |-> child]
    IN  walk[Len(path)]

\* gpii.schema.validator.saveToPath: the error map after the call, and
\* whether `target.push` threw (an object that is not an array has no push:
\* "TypeError: target.push is not a function").
saveToPath(path, errorString, map) ==
    IF Len(path) > 0
    THEN LET r == resolveOrCreateTargetFromPath(map.fieldErrors, path)
         IN  IF r.tree[r.at].kind = "arr"
             THEN [errorMap |-> [map EXCEPT !.fieldErrors =
                                   [r.tree EXCEPT ![r.at].items =
                                                      Append(@, errorString)]],
                   threw |-> FALSE]
             ELSE [errorMap |-> [map EXCEPT !.fieldErrors = r.tree],
                   threw |-> TRUE]
    ELSE [errorMap |-> [map EXCEPT !.documentErrors = Append(@, errorString)],
          threw |-> FALSE]

\* gpii.schema.validator.sanitizeError.
sanitizeError(error, map) ==
    saveToPath(extractPathSegments(error), error.message, map)

\* A plausible slip: one error map kept between calls, here the tree the
\* component returned last.
SanitizeIntoSharedMap(errs) ==
    LET loop[i \in 0..Len(errs)] ==
            IF i = 0
            THEN [errorMap |-> IF outcome.kind = "tree" THEN outcome.value
                                                        ELSE EmptyErrorMap,
                  threw |-> FALSE]
            ELSE IF loop[i - 1].threw THEN loop[i - 1]
            ELSE sanitizeError(errs[i], loop[i - 1].errorMap)
    IN  loop[Len(errs)]

\* gpii.schema.validator.sanitizeValidationErrors: fluid.each over the raw
\* errors, which a throwing iteration ends.
sanitizeValidationErrors(errs) ==
    LET loop[i \in 0..Len(errs)] ==
            IF i = 0 THEN [errorMap |-> EmptyErrorMap, threw |-> FALSE]
            ELSE IF loop[i - 1].threw THEN loop[i - 1]
            ELSE sanitizeError(errs[i], loop[i - 1].errorMap)
    IN  loop[Len(errs)]

----------------------------------------------------------------------------
(* extractPathSegments on its own: every short pointer, one call. *)

PointerChars == {"#", "/", "~", "0", "1", "a"}

IdleComponent ==
    /\ schemaContents = <<>>
    /\ zSchemaOptions = [noExtraKeywords |-> TRUE, reportPathAsArray |-> FALSE]
    /\ lastCall = [key |-> "", content |-> {}]
    /\ outcome = [kind |-> "none"]
    /\ validatorCalls = <<>>
    /\ seenKinds = {}

IdleSanitize ==
    /\ errors = <<>>
    /\ processed = 0
    /\ errorMap = EmptyErrorMap
    /\ thrown = FALSE

IdlePointer ==
    /\ pointer = <<>>
    /\ segments = <<>>
    /\ extracted = FALSE

IdleBinder ==
    /\ errorBindings = <<>>
    /\ located = <<>>
    /\ modelFieldErrors = <<>>
    /\ inlineErrors = <<>>
    /\ domEvents = <<>>
    /\ templatesLoaded = FALSE

InitPointer ==
    /\ pointer \in SeqsUpTo(PointerChars, MaxPointerLen)
    /\ segments = <<>>
    /\ extracted = FALSE
    /\ IdleComponent
    /\ IdleSanitize
    /\ IdleBinder

\* One call of extractPathSegments, on an error that is no required-property
\* failure (see SanitizeStep for those).
ExtractPointer ==
    /\ ~extracted
    /\ segments' = extractPathSegments(
           [code |-> "PATTERN", hasParams |-> TRUE, params |-> <<>>,
            message |-> "String does not match pattern", path |-> pointer])
    /\ extracted' = TRUE
    /\ UNCHANGED <<pointer, componentVars, sanitizeVars, binderVars>>

NextPointer == ExtractPointer

SpecPointer == InitPointer /\ [][NextPointer]_vars

\* What the pointer holds between its slashes, read off the positions of the
\* slashes: the non-empty maximal runs of other characters, in order.
RunStarts(s) == {i \in 1..Len(s) : s[i] # "/" /\ (i = 1 \/ s[i - 1] = "/")}

RunEnd(s, i) ==
    CHOOSE j \in i..Len(s) :
        /\ \A k \in i..j : s[k] # "/"
        /\ (j = Len(s) \/ s[j + 1] = "/")

NthRunStart(s, n) ==
    CHOOSE i \in RunStarts(s) : Cardinality({j \in RunStarts(s) : j < i}) = n - 1

Runs(s) ==
    [n \in 1..Cardinality(RunStarts(s)) |->
        SubSeq(s, NthRunStart(s, n), RunEnd(s, NthRunStart(s, n)))]

\* RFC 6901 decoding of one segment: "~1" is "/", "~0" is "~".
Unescape(seg) ==
    LET from[i \in 1..(Len(seg) + 2)] ==
            IF i > Len(seg) THEN <<>>
            ELSE IF seg[i] = "~" /\ i < Len(seg) /\ seg[i + 1] = "1"
                 THEN <<"/">> \o from[i + 2]
            ELSE IF seg[i] = "~" /\ i < Len(seg) /\ seg[i + 1] = "0"
                 THEN <<"~">> \o from[i + 2]
            ELSE <<seg[i]>> \o from[i + 1]
    IN  from[1]

\* C8: when a pointer is converted to path segments, every "~1" in a segment
\* is replaced by "/" and every "~0" by "~" (so "#/deep~1slasher" yields the
\* one segment "deep/slasher").  The code keeps the escapes as they are.
C8_EscapesDecoded ==
    extracted =>
        segments = [n \in 1..Len(Slice1(Runs(pointer))) |->
                        Unescape(Slice1(Runs(pointer))[n])]

----------------------------------------------------------------------------
(* sanitizeValidationErrors on its own: every short list of raw errors, one  *)
(* loop iteration at a time.                                                 *)

\* A raw error as Z-Schema reports it (validate.js, lines 73-88):
\* code, params, message and the path of the failing value.  Z-Schema always
\* supplies `params`; hasParams is the truthiness the code tests.
RawError(code, params, message, path) ==
    [code |-> code, hasParams |-> TRUE, params |-> params,
     message |-> message, path |-> path]

\* The failures of one document against one schema, such as
\*   { p: "pass", d: { x: 1 }, y: 1 }
\* where `s` is required at the top, `p` is a password, `d` allows only a
\* required `r`, and the top allows no `y`.
ReqS == RawError("OBJECT_MISSING_REQUIRED_PROPERTY", << <<"s">> >>,
                 "Missing required property: s", <<"#", "/">>)
AddlD == RawError("OBJECT_ADDITIONAL_PROPERTIES", << <<"x">> >>,
                  "Additional properties not allowed: x", <<"#", "/", "d">>)
ReqR == RawError("OBJECT_MISSING_REQUIRED_PROPERTY", << <<"r">> >>,
                 "Missing required property: r", <<"#", "/", "d">>)
MinP == RawError("MIN_LENGTH", << <<"4">>, <<"8">> >>,
                 "String is too short (4 chars), minimum 8",
                 <<"#", "/", "p">>)
PatP == RawError("PATTERN", << <<"A">>, <<"p">> >>,
                 "String does not match pattern [A-Z]+: pass",
                 <<"#", "/", "p">>)
AddlRoot == RawError("OBJECT_ADDITIONAL_PROPERTIES", << <<"y">> >>,
                     "Additional properties not allowed: y", <<"#", "/">>)

RawErrors == {ReqS, AddlD, ReqR, MinP, PatP, AddlRoot}

InitSanitize ==
    /\ errors \in SeqsUpTo(RawErrors, MaxErrors)
    /\ processed = 0
    /\ errorMap = EmptyErrorMap
    /\ thrown = FALSE
    /\ IdleComponent
    /\ IdlePointer
    /\ IdleBinder

\* One iteration of the fluid.each of sanitizeValidationErrors: a call of
\* sanitizeError on the next raw error.  A TypeError ends the loop.
SanitizeStep ==
    /\ processed < Len(errors)
    /\ ~thrown
    /\ LET r == sanitizeError(errors[processed + 1], errorMap)
       IN  /\ errorMap' = r.errorMap
           /\ thrown' = r.threw
    /\ processed' = processed + 1
    /\ UNCHANGED <<errors, componentVars, pointerVars, binderVars>>

NextSanitize == SanitizeStep

SpecSanitize == InitSanitize /\ [][NextSanitize]_vars

SanitizeDone == thrown \/ processed = Len(errors)

\* The loop, taken an iteration at a time, is sanitizeValidationErrors.
SanitizeStepsAgree ==
    SanitizeDone =>
        [errorMap |-> errorMap, threw |-> thrown] = sanitizeValidationErrors(errors)

\* The messages of the raw errors of `errs` whose path is `path`, in order.
MessagesAt(errs, path) ==
    LET at == SelectSeq(errs, LAMBDA e : extractPathSegments(e) = path)
    IN  [i \in 1..Len(at) |-> at[i].message]

\* What is stored at `path` of an error map: documentErrors for the empty
\* path, else the strings of the array there (none if there is no array).
StoredAt(map, path) ==
    IF path = <<>> THEN map.documentErrors
    ELSE IF path \in DOMAIN map.fieldErrors /\ map.fieldErrors[path].kind = "arr"
         THEN map.fieldErrors[path].items
         ELSE <<>>

\* C3: for every list of raw errors, the messages stored at any one field
\* path, and in documentErrors, are those of the raw errors of that path in
\* the order the validator reported them, one per raw error: none is dropped,
\* deduplicated or moved.
C3_StoredInEncounterOrder ==
    SanitizeDone =>
        /\ \A i \in 1..Len(errors) :
              StoredAt(errorMap, extractPathSegments(errors[i]))
                  = MessagesAt(errors, extractPathSegments(errors[i]))
        /\ errorMap.documentErrors = MessagesAt(errors, <<>>)

\* C4: every raw error's message is appended to documentErrors if and only if
\* its path has no segment; otherwise it is appended to the sequence at that
\* path inside fieldErrors, and documentErrors is left as it was.
C4_RoutedByPath ==
    [][processed' = processed + 1 =>
          LET e == errors[processed']
              path == extractPathSegments(e)
          IN  /\ Len(path) = 0 <=>
                    errorMap'.documentErrors
                        = Append(errorMap.documentErrors, e.message)
              /\ Len(path) > 0 =>
                    /\ StoredAt(errorMap', path)
                           = Append(StoredAt(errorMap, path), e.message)
                    /\ errorMap'.documentErrors = errorMap.documentErrors]_vars

IsRequiredFailure(e) ==
    e.code = "OBJECT_MISSING_REQUIRED_PROPERTY" /\ e.hasParams /\ e.params # <<>>

----------------------------------------------------------------------------
(* The component: schemas, Z-Schema at its boundary, and validate.          *)

\* A constraint of a schema: where it sits in the schema (the key of a
\* message in an `errors` block) and the raw error Z-Schema reports for a
\* document that breaks it.
Constraint(name, schemaPath, error) ==
    [name |-> name, schemaPath |-> schemaPath, error |-> error]

CReqS == Constraint("reqS", "#/required/0", ReqS)
CAddlD == Constraint("addlD", "#/definitions/d/additionalProperties", AddlD)
CReqR == Constraint("reqR", "#/definitions/d/required/0", ReqR)
CMinP == Constraint("minP", "#/definitions/p/minLength", MinP)
CPatP == Constraint("patP", "#/definitions/p/pattern", PatP)

ConstraintNames == {"reqS", "addlD", "reqR", "minP", "patP"}

\* A schema document: whether it is a well-formed JSON Schema, the schema it
\* refers to ("" for none), the messages of its `errors` blocks, and its
\* constraints in the order in which Z-Schema checks them.
Schema(wellFormed, extends, errorsMetadata, constraints) ==
    [wellFormed |-> wellFormed, extends |-> extends,
     errors |-> errorsMetadata, constraints |-> constraints]

\* The schemas a deployment may register (after tests/schemas): a plain one
\* that checks an object before its properties, a plain one that checks them
\* the other way round, one with `errors` blocks for two of its three
\* constraints, one layered on it that replaces one of the two messages, and
\* one that is no JSON Schema.
SchemaLibrary ==
    ("base.json" :> Schema(TRUE, "", <<>>,
                           <<CReqS, CAddlD, CReqR, CPatP>>))
    @@ ("gated.json" :> Schema(TRUE, "", <<>>,
                               <<CReqS, CReqR, CAddlD>>))
    @@ ("evolved.json" :> Schema(TRUE, "",
            ("#/required/0" :> "The 's' field is required.")
            @@ ("#/definitions/p/minLength" :> "Enter at least eight characters."),
            <<CReqS, CMinP, CPatP>>))
    @@ ("evolved-overlay.json" :> Schema(TRUE, "evolved.json",
            ("#/definitions/p/minLength" :> "Enter at least EIGHT characters."),
            <<CReqS, CMinP, CPatP>>))
    @@ ("broken.json" :> Schema(FALSE, "", <<>>, <<>>))

\* The keys a caller may pass: those of the library and one of no schema.
Keys == DOMAIN SchemaLibrary \cup {"unknown.json"}

\* A document, as far as a validator can tell: the constraints it breaks.
Contents == {c \in SUBSET ConstraintNames : Cardinality(c) <= MaxViolations}

\* validator.validateSchema on every registered schema (line 59): each is a
\* JSON Schema, each reference leads to a registered schema, and with
\* noExtraKeywords no schema holds a keyword JSON Schema does not define,
\* which `errors` is.
ZSchemaValidateSchema(contents, options) ==
    \A k \in DOMAIN contents :
        /\ contents[k].wellFormed
        /\ contents[k].extends # "" => contents[k].extends \in DOMAIN contents
        /\ options.noExtraKeywords => DOMAIN contents[k].errors = {}

\* validator.validate(content, schema) followed by validator.getLastErrors()
\* (lines 64-66): the raw errors of the constraints the content breaks, in the
\* schema's order; the content is valid when there is none.
ZSchemaLastErrors(content, schema) ==
    LET broken == SelectSeq(schema.constraints, LAMBDA c : c.name \in content)
    IN  [i \in 1..Len(broken) |-> broken[i].error]

\* What the caller of validate gets for a list of raw errors (line 66): the
\* error map, unless sanitizing threw.
Sanitized(errs) ==
    LET r == sanitizeValidationErrors(errs)
    IN  IF r.threw THEN [kind |-> "TypeError"]
        ELSE [kind |-> "tree", value |-> r.errorMap]

\* A plausible slip: only the schema of the key is checked.
ValidateOwnSchemaOnly(contents, options, key, content) ==
    IF ~ZSchemaValidateSchema([k \in {key} |-> contents[k]], options)
    THEN [outcome |-> [kind |-> "fail_schemas"],
          calls |-> <<"getValidator", "validateSchema", "getLastErrors">>]
    ELSE IF ZSchemaLastErrors(content, contents[key]) # <<>>
    THEN [outcome |-> Sanitized(ZSchemaLastErrors(content, contents[key])),
          calls |-> <<"getValidator", "validateSchema", "validate",
                      "getLastErrors">>]
    ELSE [outcome |-> [kind |-> "undefined"],
          calls |-> <<"getValidator", "validateSchema", "validate">>]

\* validate from line 55 on, for a key that has schema content.
ValidateRegistered(contents, options, key, content) ==
    IF ~ZSchemaValidateSchema(contents, options)
    THEN [outcome |-> [kind |-> "fail_schemas"],
          calls |-> <<"getValidator", "validateSchema", "getLastErrors">>]
    ELSE IF ZSchemaLastErrors(content, contents[key]) # <<>>
    THEN [outcome |-> Sanitized(ZSchemaLastErrors(content, contents[key])),
          calls |-> <<"getValidator", "validateSchema", "validate",
                      "getLastErrors">>]
    ELSE [outcome |-> [kind |-> "undefined"],
          calls |-> <<"getValidator", "validateSchema", "validate">>]

\* A plausible slip: the key looked up only once the schemas are checked.
ValidateOutcomeLateLookup(contents, options, key, content) ==
    IF ~ZSchemaValidateSchema(contents, options)
    THEN [outcome |-> [kind |-> "fail_schemas"],
          calls |-> <<"getValidator", "validateSchema", "getLastErrors">>]
    ELSE IF key \notin DOMAIN contents
    THEN [outcome |-> [kind |-> "fail_noschema"],
          calls |-> <<"getValidator", "validateSchema">>]
    ELSE ValidateRegistered(contents, options, key, content)

\* gpii.schema.validator.validate: how the call ends (fluid.fail throws) and
\* what it asked of the validator.
ValidateOutcome(contents, options, key, content) ==
    IF key \notin DOMAIN contents
    THEN [outcome |-> [kind |-> "fail_noschema"], calls |-> <<>>]
    ELSE ValidateRegistered(contents, options, key, content)

\* What a validate call leaves of itself in the state.
ValidateCall(key, content) ==
    \E r \in {ValidateOutcome(schemaContents, zSchemaOptions, key, content)} :
        /\ lastCall' = [key |-> key, content |-> content]
        /\ outcome' = r.outcome
        /\ validatorCalls' = r.calls
        /\ seenKinds' = seenKinds \cup {r.outcome.kind}
        /\ UNCHANGED <<zSchemaOptions, sanitizeVars, pointerVars, binderVars>>

\* A plausible slip: a key that cannot be validated is dropped from the set.
ValidateForgetting(key, content) ==
    /\ ValidateCall(key, content)
    /\ schemaContents' =
          IF ValidateOutcome(schemaContents, zSchemaOptions, key, content)
                 .outcome.kind = "fail_schemas"
          THEN [k \in DOMAIN schemaContents \ {key} |-> schemaContents[k]]
          ELSE schemaContents

\* The invoker `validate(key, content)` of the component.
Validate(key, content) ==
    /\ ValidateCall(key, content)
    /\ UNCHANGED schemaContents

\* The component after construction: some schemas of the library registered
\* (none by default), zSchemaOptions at its defaults or with noExtraKeywords
\* switched off.
Init ==
    /\ schemaContents \in
          {[k \in ks |-> SchemaLibrary[k]] : ks \in SUBSET DOMAIN SchemaLibrary}
    /\ zSchemaOptions \in
          {[noExtraKeywords |-> b, reportPathAsArray |-> FALSE] : b \in BOOLEAN}
    /\ lastCall = [key |-> "", content |-> {}]
    /\ outcome = [kind |-> "none"]
    /\ validatorCalls = <<>>
    /\ seenKinds = {}
    /\ IdleSanitize
    /\ IdlePointer
    /\ IdleBinder

Next == \E key \in Keys, content \in Contents : Validate(key, content)

Spec == Init /\ [][Next]_vars

Called == outcome.kind # "none"

Registered(key) == key \in DOMAIN schemaContents

\* The latest call got as far as validator.validate(content, schema).
JudgedContent == \E i \in DOMAIN validatorCalls : validatorCalls[i] = "validate"

\* C1: for a registered key, once the validator has judged the content,
\* validate returns the sentinel exactly when the content was judged valid,
\* and returns an error tree, without throwing, when it was not; the
\* sentinel is not a tree.
C1_VerdictDecidesResult ==
    (Called /\ Registered(lastCall.key) /\ JudgedContent) =>
        LET raw == ZSchemaLastErrors(lastCall.content,
                                     schemaContents[lastCall.key])
        IN  /\ outcome.kind = "undefined" <=> raw = <<>>
            /\ raw # <<>> => outcome.kind = "tree"

ExpectedMessage(contents, key, c) ==
    LET schema == contents[key]
    IN  IF c.schemaPath \in DOMAIN schema.errors
        THEN schema.errors[c.schemaPath]
        ELSE IF schema.extends \in DOMAIN contents
                /\ c.schemaPath \in DOMAIN contents[schema.extends].errors
        THEN contents[schema.extends].errors[c.schemaPath]
        ELSE c.error.message

Elements(seq) == {seq[i] : i \in DOMAIN seq}

\* C6: the message reported for a raw error is the overlay's message for the
\* error's place in the schema if the overlay defines one, else the base
\* schema's if it defines one, and the validator's own only when neither
\* does.
C6_OverlayPrecedence ==
    (Called /\ outcome.kind = "tree") =>
        LET schema == schemaContents[lastCall.key]
        IN  \A i \in DOMAIN schema.constraints :
                schema.constraints[i].name \in lastCall.content =>
                    ExpectedMessage(schemaContents, lastCall.key,
                                    schema.constraints[i])
                        \in Elements(StoredAt(outcome.value,
                                extractPathSegments(schema.constraints[i].error)))

\* The registered schemas are usable but for what `errors` blocks may do:
\* each is a JSON Schema and each reference leads to a registered schema.
SchemasUsable ==
    \A k \in DOMAIN schemaContents :
        /\ schemaContents[k].wellFormed
        /\ schemaContents[k].extends # "" =>
               schemaContents[k].extends \in DOMAIN schemaContents

\* C7: a record that satisfies every constraint of its schema validates to
\* the sentinel even when that schema, or another registered one, carries
\* `errors` blocks: their presence never makes validate fail.
C7_MetadataHarmless ==
    (Called /\ Registered(lastCall.key) /\ SchemasUsable
            /\ ZSchemaLastErrors(lastCall.content,
                                 schemaContents[lastCall.key]) = <<>>) =>
        outcome.kind = "undefined"

\* C10: no validate call changes the registered schema contents, however it
\* ends.
C10_SchemaContentsKept == [][schemaContents' = schemaContents]_vars

\* C10's case: a schema is registered, and calls have returned the sentinel,
\* returned an error tree and, the latest, failed for an unknown key.
C10_Witness ==
    /\ DOMAIN schemaContents = {"base.json"}
    /\ {"undefined", "tree", "fail_noschema"} \subseteq seenKinds
    /\ outcome.kind = "fail_noschema"

----------------------------------------------------------------------------
(* resolveOrCreateTargetFromPath and the shape of the tree, on the trees the *)
(* loop of sanitizeValidationErrors builds.                                  *)

\* The paths handed to resolveOrCreateTargetFromPath: one to MaxPathLen
\* segments, each the name of a field.
FieldNames == {<<"d">>, <<"r">>, <<"p">>}

ResolvePaths == SeqsUpTo(FieldNames, MaxPathLen) \ {<<>>}

Prefixes(path) == {SubSeq(path, 1, k) : k \in 1..Len(path)}

Messages == {e.message : e \in RawErrors}

HasChildren(tree, p) ==
    \E q \in DOMAIN tree : Len(q) = Len(p) + 1 /\ SubSeq(q, 1, Len(p)) = p

\* A FieldErrorTree: documentErrors a sequence of strings; in fieldErrors
\* every node with children a mapping, every node without (but the root of
\* an empty tree) a sequence of strings.
IsFieldErrorTree(map) ==
    /\ \A i \in 1..Len(map.documentErrors) : map.documentErrors[i] \in Messages
    /\ \A p \in DOMAIN map.fieldErrors :
          LET node == map.fieldErrors[p]
          IN  IF HasChildren(map.fieldErrors, p) \/ p = <<>>
              THEN node = ObjNode
              ELSE /\ node.kind = "arr"
                   /\ \A i \in 1..Len(node.items) : node.items[i] \in Messages

\* C12: whatever list of raw errors is processed, one path a strict prefix
\* of another's or not and in either order, processing never fails and what
\* it has built is a well-formed FieldErrorTree.
C12_AlwaysWellFormed ==
    /\ ~thrown
    /\ IsFieldErrorTree(errorMap)

----------------------------------------------------------------------------
(* Calls of validate one after another.  validate is synchronous and the   *)
(* program has one thread, so calls follow each other and never interleave. *)

\* The result `out` of the call `call`, which asked `calls` of the
\* validator, holds the errors of that call and no others: a validator was
\* fetched for it, a tree returned stores at each place the messages the
\* validator reported for this content at that place, and the sentinel is
\* returned only when it reported none.
OwnErrorsOnly(call, out, calls) ==
    LET raw == IF call.key \in DOMAIN schemaContents
               THEN ZSchemaLastErrors(call.content, schemaContents[call.key])
               ELSE <<>>
    IN  /\ calls # <<>> => calls[1] = "getValidator"
        /\ out.kind = "undefined" => raw = <<>>
        /\ out.kind = "tree" =>
              \A path \in DOMAIN out.value.fieldErrors \cup {<<>>} :
                  StoredAt(out.value, path) = MessagesAt(raw, path)

InvalidSchemaRegistered ==
    \E k \in DOMAIN schemaContents :
        \/ ~schemaContents[k].wellFormed
        \/ schemaContents[k].extends \notin DOMAIN schemaContents \cup {""}
        \/ zSchemaOptions.noExtraKeywords /\ schemaContents[k].errors # <<>>

\* C14: the registered schemas are all checked before the content is.  While
\* any of them is invalid every call fails, whatever its key, also a key whose
\* own schema is valid; the validator is never asked about the content and
\* nothing is returned.
C14_SchemasCheckedFirst ==
    (Called /\ InvalidSchemaRegistered) =>
        /\ outcome.kind \in {"fail_schemas", "fail_noschema"}
        /\ Registered(lastCall.key) => outcome.kind = "fail_schemas"
        /\ ~JudgedContent

\* C14's case: a call for base.json, a valid schema, fails because broken.json
\* is registered beside it.
C14_Witness ==
    /\ DOMAIN schemaContents = {"base.json", "broken.json"}
    /\ ~zSchemaOptions.noExtraKeywords
    /\ lastCall.key = "base.json"
    /\ outcome.kind = "fail_schemas"
    /\ validatorCalls = <<"getValidator", "validateSchema", "getLastErrors">>

----------------------------------------------------------------------------
(* The error binder (errorBinder.js).  The page is seen through            *)
(* that.locate: the elements each named selector finds, and the elements of *)
(* class validationError, which are the inline errors rendered so far (the  *)
(* inlineError template gives what it renders that class).  Paths, which    *)
(* the code prefixes with ".", are sequences of one-character strings.      *)

Selectors == {"username", "password", "confirm"}

\* The two forms of a binding's value: "path", and {selector, path}.
StringBinding(path) == [form |-> "string", string |-> path]

ObjectBinding(selector, path) ==
    [form |-> "object", selector |-> selector, path |-> path]

Binding(key, value) == [key |-> key, value |-> value]

\* The bindings a form may declare: the short form for the field u, the long
\* form for the field p, and a second element bound to p.
BindingLibrary ==
    << Binding("username", StringBinding(<<"u">>)),
       Binding("pw", ObjectBinding("password", <<"p">>)),
       Binding("pwAgain", ObjectBinding("confirm", <<"p">>)) >>

\* The entries of `seq` at the positions in S, in order.
Pick(seq, S) ==
    LET f[i \in 0..Len(seq)] ==
            IF i = 0 THEN <<>>
            ELSE IF i \in S THEN Append(f[i - 1], seq[i]) ELSE f[i - 1]
    IN  f[Len(seq)]

FieldError(keyword, dataPath, message) ==
    [keyword |-> keyword, dataPath |-> dataPath, message |-> message]

ErrU == FieldError("required", <<".", "u">>, "Username is a required field.")
ErrP == FieldError("pattern", <<".", "p">>, "Passwords must be at least 8 characters long.")
ErrPX == FieldError("minLength", <<".", "p", ".", "x">>, "Too short.")
ErrRoot == FieldError("type", <<>>, "Should be an object.")

FieldErrors == {ErrU, ErrP, ErrPX, ErrRoot}

\* The default of model.fieldErrors (lines 38-50).
DefaultFieldErrors == <<ErrU, ErrP>>

\* `typeof value === "string" ? key : value.selector` (line 13).
BindingSelector(binding) ==
    IF binding.value.form = "string" THEN binding.key
    ELSE binding.value.selector

\* `"." + (typeof value === "string" ? value : value.path)` (line 17).
expectedPath(binding) ==
    <<".">> \o (IF binding.value.form = "string" THEN binding.value.string
                ELSE binding.value.path)

\* that.locate(selector): the elements found, none for a name that is no
\* selector.  What it returns is a jQuery object, truthy also when empty.
locate(selector) ==
    IF selector \in DOMAIN located
    THEN [n \in 1..located[selector] |-> [selector |-> selector, n |-> n]]
    ELSE <<>>

\* that.renderer.before(element, template, error): the template rendered
\* with the error, put in front of each of the elements.
rendererBefore(element, error) ==
    [n \in 1..Len(element) |-> [before |-> element[n], error |-> error]]

\* A plausible slip: the inline errors of earlier calls left in place.
KeepValidationErrors(shown) == shown

\* that.locate("validationError").remove() (line 9).
removeValidationErrors(shown) == <<>>

\* gpii.schemas.client.errorBinder.displayErrors, for the model's
\* fieldErrors `current` (null and the empty list alike give fluid.each
\* nothing to visit).
displayErrors(current) ==
    LET eachBinding[b \in 0..Len(errorBindings)] ==
            IF b = 0
            THEN [shown |-> removeValidationErrors(inlineErrors),
                  events |-> <<"remove">>]
            ELSE LET binding == errorBindings[b]
                     element == locate(BindingSelector(binding))
                     eachError[i \in 0..Len(current)] ==
                         IF i = 0 THEN eachBinding[b - 1]
                         ELSE IF current[i].dataPath = expectedPath(binding)
                         THEN [shown |-> eachError[i - 1].shown \o
                                         rendererBefore(element, current[i]),
                               events |-> Append(eachError[i - 1].events,
                                                 "before")]
                         ELSE eachError[i - 1]
                 IN  eachError[Len(current)]
    IN  /\ inlineErrors' = eachBinding[Len(errorBindings)].shown
        /\ domEvents' = Append(eachBinding[Len(errorBindings)].events,
                               "onDomBind")

\* The listener onTemplatesLoaded.displayErrors of errorAwareForm.
TemplatesLoaded ==
    /\ ~templatesLoaded
    /\ templatesLoaded' = TRUE
    /\ displayErrors(modelFieldErrors)
    /\ UNCHANGED <<errorBindings, located, modelFieldErrors, componentVars,
                   sanitizeVars, pointerVars>>

\* A change of model.fieldErrors (the response to a submission: the errors
\* reported, or null) and its model listener, displayErrors.
ChangeFieldErrors(new) ==
    /\ new # modelFieldErrors
    /\ modelFieldErrors' = new
    /\ displayErrors(new)
    /\ UNCHANGED <<errorBindings, located, templatesLoaded, componentVars,
                   sanitizeVars, pointerVars>>

\* The binder after construction: the model at its default, which the
\* listener does not see (excludeSource: "init"), and nothing rendered.
InitBinder ==
    /\ errorBindings \in
          {Pick(BindingLibrary, S) : S \in SUBSET (1..Len(BindingLibrary))}
    /\ located \in [Selectors -> 0..MaxElements]
    /\ modelFieldErrors = DefaultFieldErrors
    /\ inlineErrors = <<>>
    /\ domEvents = <<>>
    /\ templatesLoaded = FALSE
    /\ IdleComponent
    /\ IdleSanitize
    /\ IdlePointer

NextBinder ==
    \/ TemplatesLoaded
    \/ \E new \in SeqsUpTo(FieldErrors, MaxFieldErrors) : ChangeFieldErrors(new)

SpecBinder == InitBinder /\ [][NextBinder]_vars

Displayed == domEvents # <<>>

Count(seq, x) == Cardinality({k \in 1..Len(seq) : seq[k] = x})

\* The pairs of a binding and an error of the model whose dataPath is "."
\* followed by the binding's path.
MatchingPairs ==
    {m \in (1..Len(errorBindings)) \X (1..Len(modelFieldErrors)) :
        LET value == errorBindings[m[1]].value
        IN  modelFieldErrors[m[2]].dataPath =
                <<".">> \o (IF value.form = "string" THEN value.string
                            ELSE value.path)}

\* The latest call removed first, then inserted once for each matching pair,
\* then fired onDomBind, once.
RemovedInsertedFired ==
    /\ domEvents[1] = "remove"
    /\ Count(domEvents, "remove") = 1
    /\ Last(domEvents) = "onDomBind"
    /\ Count(domEvents, "onDomBind") = 1
    /\ Count(domEvents, "before") = Cardinality(MatchingPairs)

\* C15, as stated: after every displayErrors call the inline errors shown
\* are those of the model's fieldErrors whose dataPath is "." followed by a
\* bound path, one for each matching error and binding, earlier ones having
\* been removed, and onDomBind has fired once, after the insertions.
C15_OnePerMatch ==
    Displayed =>
        /\ RemovedInsertedFired
        /\ \A e \in FieldErrors :
              Cardinality({k \in 1..Len(inlineErrors) :
                              inlineErrors[k].error = e})
              = Cardinality({m \in MatchingPairs : modelFieldErrors[m[2]] = e})

\* C15, amended: after every displayErrors call the inline errors shown are
\* those of the model's fieldErrors whose dataPath is "." followed by a
\* bound path, one in front of each element the binding's selector locates
\* for each matching error and binding (so none where it locates none),
\* earlier ones having been removed, and onDomBind has fired once, after the
\* insertions.
C15_OnePerLocatedElement ==
    Displayed =>
        /\ RemovedInsertedFired
        /\ \A k \in 1..Len(inlineErrors) :
              /\ inlineErrors[k].error \in FieldErrors
              /\ inlineErrors[k].before.selector \in Selectors
              /\ inlineErrors[k].before.n
                     \in 1..located[inlineErrors[k].before.selector]
        /\ \A e \in FieldErrors, s \in Selectors :
              \A n \in 1..located[s] :
                  Count(inlineErrors,
                        [before |-> [selector |-> s, n |-> n], error |-> e])
                  = Cardinality(
                      {m \in MatchingPairs :
                          /\ modelFieldErrors[m[2]] = e
                          /\ s = (IF errorBindings[m[1]].value.form = "string"
                                  THEN errorBindings[m[1]].key
                                  ELSE errorBindings[m[1]].value.selector)})

\* C15's case: after the templates have loaded and the model has changed,
\* with bindings of both forms, the error of u has no element to go to, and
\* the error of p stands before both elements of one selector and the one of
\* the other.
C15_Witness ==
    /\ templatesLoaded
    /\ errorBindings = BindingLibrary
    /\ located = [s \in Selectors |->
                     IF s = "username" THEN 0 ELSE IF s = "password" THEN 2 ELSE 1]
    /\ modelFieldErrors = <<ErrP, ErrU>>
    /\ Len(inlineErrors) = 3
    /\ Last(domEvents) = "onDomBind"

=============================================================================
